---- MODULE Spec2Model ----
(***************************************************************************)
(* Optimod SNMP -> EmberPlus gateway (index.js).                           *)
(*                                                                         *)
(* The process builds a fixed parameter tree, arms one interval timer and  *)
(* on every tick issues one SNMP GET for the nine OIDs.  The GET callback  *)
(* either marks the device disconnected (batch error) or marks it          *)
(* connected, stamps Last Poll and writes every non-errored varbind to     *)
(* its leaf.  JavaScript runs each handler to completion, so every handler *)
(* is one atomic action.                                                   *)
(*                                                                         *)
(* Text is modelled as a sequence of character codes, a Buffer as a        *)
(* sequence of bytes, the clock as milliseconds since the epoch; the clock *)
(* never runs backwards.  Varbinds that are not errored carry the type the *)
(* MIB gives them: OctetString for Device Info, Integer for Monitoring.    *)
(***************************************************************************)
EXTENDS Integers, Sequences, FiniteSets, TLC

VARIABLES
    env,          \* process.env.POLL_INTERVAL_MS as read at startup
    tree,         \* the parameter leaves of the published tree
    now,          \* wall clock, ms
    nextFire,     \* instant at which the interval timer is due
    issued,       \* number of session.get requests issued so far
    pending,      \* requests whose callback has not run yet: id -> oid list
    last          \* the arguments of the most recent callback invocation

vars == <<env, tree, now, nextFire, issued, pending, last>>

-----------------------------------------------------------------------------
(* Bounds of the model *)

MaxCycles == 2          \* ticks explored; time stops at the last of them

-----------------------------------------------------------------------------
(* JavaScript values *)

Undefined == [kind |-> "undefined", n |-> 0, chars |-> <<>>]
Null == [kind |-> "null", n |-> 0, chars |-> <<>>]
NaN == [kind |-> "NaN", n |-> 0, chars |-> <<>>]
Num(i) == [kind |-> "number", n |-> i, chars |-> <<>>]
Str(s) == [kind |-> "string", n |-> 0, chars |-> s]
Buf(b) == [kind |-> "buffer", n |-> 0, chars |-> b]

IsDigit(c) == c \in 48..57
IsSpace(c) == c \in {9, 10, 11, 12, 13, 32}

RECURSIVE DecDigits(_)
DecDigits(i) ==
    IF i < 10 THEN <<48 + i>> ELSE DecDigits(i \div 10) \o <<48 + (i % 10)>>

\* Number.prototype.toString for an integer
NumberToString(i) == IF i < 0 THEN <<45>> \o DecDigits(-i) ELSE DecDigits(i)

\* a Buffer decoded one byte per character (latin1) instead of as UTF-8
Latin1Decode(b) == b

RECURSIVE Utf8Decode(_)
\* Buffer.prototype.toString(): UTF-8 decoding, U+FFFD for a malformed byte
\* (lead bytes of 3- and 4-byte sequences decode as malformed here).
Utf8Decode(b) ==
    IF b = <<>> THEN <<>>
    ELSE IF b[1] < 128 THEN <<b[1]>> \o Utf8Decode(Tail(b))
    ELSE IF b[1] \in 194..223 /\ Len(b) >= 2 /\ b[2] \in 128..191
         THEN <<(b[1] - 192) * 64 + (b[2] - 128)>>
              \o Utf8Decode(SubSeq(b, 3, Len(b)))
    ELSE <<65533>> \o Utf8Decode(Tail(b))

\* value.toString() / the implicit ToString conversion
JsToString(v) ==
    CASE v.kind = "number" -> NumberToString(v.n)
      [] v.kind = "string" -> v.chars
      [] v.kind = "buffer" -> Utf8Decode(v.chars)
      [] v.kind = "NaN" -> <<78, 97, 78>>
      [] v.kind = "null" -> <<110, 117, 108, 108>>
      [] OTHER -> <<117, 110, 100, 101, 102, 105, 110, 101, 100>>

RECURSIVE SkipSpace(_)
SkipSpace(s) == IF s # <<>> /\ IsSpace(s[1]) THEN SkipSpace(Tail(s)) ELSE s

RECURSIVE DigitPrefix(_)
DigitPrefix(s) ==
    IF s # <<>> /\ IsDigit(s[1]) THEN <<s[1]>> \o DigitPrefix(Tail(s)) ELSE <<>>

RECURSIVE DigitsValue(_)
DigitsValue(d) ==
    IF d = <<>> THEN 0
    ELSE DigitsValue(SubSeq(d, 1, Len(d) - 1)) * 10 + (d[Len(d)] - 48)

\* parseInt(v) with no radix, decimal path: ToString, skip white space, an
\* optional sign, the longest run of digits; NaN when there is no digit.
parseInt(v) ==
    LET s == SkipSpace(JsToString(v))
        neg == s # <<>> /\ s[1] = 45
        body == IF s # <<>> /\ s[1] \in {43, 45} THEN Tail(s) ELSE s
        d == DigitPrefix(body)
    IN IF d = <<>> THEN NaN
       ELSE Num(IF neg THEN -DigitsValue(d) ELSE DigitsValue(d))

\* JavaScript truthiness of a number or NaN, and a || b
Truthy(v) == v.kind = "number" /\ v.n # 0
OrElse(a, b) == IF Truthy(a) THEN a ELSE b

\* a field written without its leading zeros
PadNone(i, width) == NumberToString(i)

RECURSIVE Pad(_, _)
\* String(i).padStart(width, "0")
Pad(i, width) ==
    IF width = 0 THEN <<>> ELSE Pad(i \div 10, width - 1) \o <<48 + (i % 10)>>

\* new Date(t).toISOString() for an instant of 1970-01-01:
\* "1970-01-01T" hh ":" mm ":" ss "." mmm "Z"
toISOString(t) ==
    <<49, 57, 55, 48, 45, 48, 49, 45, 48, 49, 84>>
    \o Pad(t \div 3600000, 2) \o <<58>>
    \o Pad((t \div 60000) % 60, 2) \o <<58>>
    \o Pad((t \div 1000) % 60, 2) \o <<46>>
    \o Pad(t % 1000, 3) \o <<90>>

-----------------------------------------------------------------------------
(* 1. Environment and SNMP settings *)

DefaultPollIntervalMs == 5000

\* const POLL_INTERVAL_MS = parseInt(process.env.POLL_INTERVAL_MS) || 5000
POLL_INTERVAL_MS(e) == OrElse(parseInt(e), Num(DefaultPollIntervalMs)).n

\* Object.keys(oids), in insertion order
Keys ==
    <<"softwareVersion", "stationName", "inputAnalog", "inputDigital",
      "analogInputSilent", "aesInputSilent", "aesInputError",
      "powerSupply1Status", "powerSupply2Status">>

oids ==
    [softwareVersion |-> "1.3.6.1.4.1.41877.5.1.1",
     stationName |-> "1.3.6.1.4.1.41877.5.1.2",
     inputAnalog |-> "1.3.6.1.4.1.41877.5.3.1",
     inputDigital |-> "1.3.6.1.4.1.41877.5.3.2",
     analogInputSilent |-> "1.3.6.1.4.1.41877.5.3.3",
     aesInputSilent |-> "1.3.6.1.4.1.41877.5.3.4",
     aesInputError |-> "1.3.6.1.4.1.41877.5.3.5",
     powerSupply1Status |-> "1.3.6.1.4.1.41877.5.3.6",
     powerSupply2Status |-> "1.3.6.1.4.1.41877.5.3.7"]

\* Object.values(oids)
oidList == [i \in 1..Len(Keys) |-> oids[Keys[i]]]

-----------------------------------------------------------------------------
(* 2. The EmberPlus tree: the eleven parameter leaves *)

StringParam(identifier) ==
    [parameterType |-> "String", identifier |-> identifier, value |-> <<>>]
BooleanParam(identifier) ==
    [parameterType |-> "Boolean", identifier |-> identifier, value |-> FALSE]

\* a tree whose Connected leaf starts out true
InitialTreeConnected ==
    [n \in {"softwareVersionParameterNode", "stationNameParameterNode",
            "lastPollParameterNode"} |-> StringParam("")]
    @@ [n \in {"inputAnalogParameterNode", "inputDigitalParameterNode",
               "analogInputSilentParameterNode", "aesInputSilentParameterNode",
               "aesInputErrorParameterNode", "powerSupply1StatusParameterNode",
               "powerSupply2StatusParameterNode"} |-> BooleanParam("")]
    @@ [n \in {"connectedParameterNode"} |->
           [BooleanParam("") EXCEPT !.value = TRUE]]

InitialTree ==
    [softwareVersionParameterNode |-> StringParam("Software Version"),
     stationNameParameterNode |-> StringParam("Station Name"),
     inputAnalogParameterNode |-> BooleanParam("Input Analog"),
     inputDigitalParameterNode |-> BooleanParam("Input Digital"),
     analogInputSilentParameterNode |-> BooleanParam("Analog Input Silent"),
     aesInputSilentParameterNode |-> BooleanParam("AES Input Silent"),
     aesInputErrorParameterNode |-> BooleanParam("AES Input Error"),
     powerSupply1StatusParameterNode |-> BooleanParam("Power Supply 1"),
     powerSupply2StatusParameterNode |-> BooleanParam("Power Supply 2"),
     connectedParameterNode |-> BooleanParam("Optimod Connected"),
     lastPollParameterNode |-> StringParam("Last Poll")]

\* an update that also rewrites the type of the parameter it touches
updateRetyping(tr, node, v) ==
    [tr EXCEPT ![node].value = v, ![node].parameterType = "String"]

\* server.update(node, { value: v })
update(tr, node, v) == [tr EXCEPT ![node].value = v]

-----------------------------------------------------------------------------
(* 3. What the environment can hand to the program *)

\* ENV POLL_INTERVAL_MS=5000, the value the container image sets
DeployedEnv == Str(<<53, 48, 48, 48>>)

\* process.env.POLL_INTERVAL_MS: unset, "5000", "0", "-5", "abc"
EnvValues ==
    {Undefined, DeployedEnv, Str(<<48>>), Str(<<45, 53>>), Str(<<97, 98, 99>>)}

\* the error argument of a failed GET
Errors == {"RequestTimedOutError", "RequestFailedError"}

\* raw payloads an agent returns: OctetString bytes ("", "e-acute" in UTF-8,
\* "A", a lone continuation byte) and Integer values
StrRaws == <<<<>>, <<195, 169>>, <<65>>, <<169>>>>
IntRaws == <<1, 0, 2, -1, 11>>
ErrorTypes == <<"NoSuchObject", "NoSuchInstance", "EndOfMibView">>

Positions == 1..Len(Keys)

\* which items of a response carry an error marker: none, any single item,
\* the Device Info items, the Monitoring items, all items
ErrSets ==
    {S \in SUBSET Positions : Cardinality(S) <= 1}
    \cup {{1, 2}, Positions \ {1, 2}, Positions}

\* the varbind at position i of response pattern p with errored items errs;
\* the patterns rotate the payloads so that every position sees every payload
Varbind(i, p, errs) ==
    IF i \in errs
    THEN [oid |-> oidList[i],
          type |-> ErrorTypes[((i + p) % Len(ErrorTypes)) + 1],
          value |-> Null]
    ELSE IF i <= 2
    THEN [oid |-> oidList[i], type |-> "OctetString",
          value |-> Buf(StrRaws[((i + p) % Len(StrRaws)) + 1])]
    ELSE [oid |-> oidList[i], type |-> "Integer",
          value |-> Num(IntRaws[((i + p) % Len(IntRaws)) + 1])]

Responses ==
    {[i \in Positions |-> Varbind(i, p, errs)] :
        p \in 0..(Len(IntRaws) - 1), errs \in ErrSets}


-----------------------------------------------------------------------------
(* 4. SNMP polling *)

\* snmp.isVarbindError(varbind)
isVarbindError(varbind) ==
    varbind.type \in {"NoSuchObject", "NoSuchInstance", "EndOfMibView"}

\* const boolVal = (parseInt(value) === 1), decided by truthiness instead
boolValTruthy(value) == Truthy(parseInt(value))

\* const boolVal = (parseInt(value) === 1)
boolValOf(value) ==
    LET parsed == parseInt(value) IN parsed.kind = "number" /\ parsed.n = 1

\* the body of keys.forEach for a varbind that is not an error
updateKey(tr, key, value) ==
    IF key = "softwareVersion"
    THEN update(tr, "softwareVersionParameterNode", JsToString(value))
    ELSE IF key = "stationName"
    THEN update(tr, "stationNameParameterNode", JsToString(value))
    ELSE LET boolVal == boolValOf(value)
         IN CASE key = "inputAnalog" ->
                    update(tr, "inputAnalogParameterNode", boolVal)
              [] key = "inputDigital" ->
                    update(tr, "inputDigitalParameterNode", boolVal)
              [] key = "analogInputSilent" ->
                    update(tr, "analogInputSilentParameterNode", boolVal)
              [] key = "aesInputSilent" ->
                    update(tr, "aesInputSilentParameterNode", boolVal)
              [] key = "aesInputError" ->
                    update(tr, "aesInputErrorParameterNode", boolVal)
              [] key = "powerSupply1Status" ->
                    update(tr, "powerSupply1StatusParameterNode", boolVal)
              [] key = "powerSupply2Status" ->
                    update(tr, "powerSupply2StatusParameterNode", boolVal)
              [] OTHER -> tr

\* an iteration that pairs the varbind with the next key
forEachStepOffByOne(tr, varbinds, index) ==
    IF isVarbindError(varbinds[index])
    THEN tr
    ELSE updateKey(tr, Keys[(index % Len(Keys)) + 1], varbinds[index].value)

\* one iteration of keys.forEach((key, index) => ...)
forEachStep(tr, varbinds, index) ==
    IF isVarbindError(varbinds[index])
    THEN tr
    ELSE updateKey(tr, Keys[index], varbinds[index].value)

RECURSIVE forEachKeyStopAtError(_, _, _)
\* a loop that gives up at the first errored item
forEachKeyStopAtError(tr, varbinds, index) ==
    IF index > Len(Keys) \/ isVarbindError(varbinds[index]) THEN tr
    ELSE forEachKeyStopAtError(forEachStep(tr, varbinds, index), varbinds,
                               index + 1)

RECURSIVE forEachKey(_, _, _)
\* keys.forEach, from position index on
forEachKey(tr, varbinds, index) ==
    IF index > Len(Keys) THEN tr
    ELSE forEachKey(forEachStep(tr, varbinds, index), varbinds, index + 1)

\* an error branch that also resets the monitoring leaves
onGetErrorResetting(tr) ==
    [n \in DOMAIN tr |->
        IF tr[n].parameterType = "Boolean"
        THEN [tr[n] EXCEPT !.value = FALSE] ELSE tr[n]]

\* an error branch that also clears Last Poll
onGetErrorClearing(tr) ==
    update(update(tr, "connectedParameterNode", FALSE),
           "lastPollParameterNode", <<>>)

\* the error branch of the callback of session.get
onGetError(tr) == update(tr, "connectedParameterNode", FALSE)

\* a success branch that reports Connected only when no item is errored
onGetSuccessStrict(tr, varbinds, t) ==
    forEachKey(
        update(update(tr, "connectedParameterNode",
                      \A i \in DOMAIN varbinds : ~isVarbindError(varbinds[i])),
               "lastPollParameterNode", toISOString(t)),
        varbinds, 1)

\* a success branch that does not stamp Last Poll
onGetSuccessNoStamp(tr, varbinds, t) ==
    forEachKey(update(tr, "connectedParameterNode", TRUE), varbinds, 1)

\* the success branch of the callback of session.get
onGetSuccess(tr, varbinds, t) ==
    forEachKey(
        update(update(tr, "connectedParameterNode", TRUE),
               "lastPollParameterNode", toISOString(t)),
        varbinds, 1)

\* a callback that stamps Last Poll with every attempt, failed ones included
getCallbackStampingAttempts(tr, error, varbinds, t) ==
    IF error # "null"
    THEN update(onGetError(tr), "lastPollParameterNode", toISOString(t))
    ELSE onGetSuccess(tr, varbinds, t)

\* (error, varbinds) => { ... }, the callback of session.get
getCallback(tr, error, varbinds, t) ==
    IF error # "null" THEN onGetError(tr) ELSE onGetSuccess(tr, varbinds, t)

\* setInterval(callback, delay): a delay outside 1..2^31-1 becomes 1 ms
setIntervalDelay(delay) ==
    IF delay >= 1 /\ delay <= 2147483647 THEN delay ELSE 1

\* the period setInterval arms the timer with, once, for each setting
TimerPeriod == [e \in EnvValues |-> setIntervalDelay(POLL_INTERVAL_MS(e))]

\* setInterval(pollOptimod, POLL_INTERVAL_MS): the period of the timer
Interval(e) == TimerPeriod[e]

-----------------------------------------------------------------------------
(* The state machine *)

NoCallback == [id |-> 0, error |-> "null", varbinds |-> <<>>, at |-> 0]

\* The state once the module body has run: tree published, timer armed.
Startup(envs) ==
    /\ env \in envs
    /\ tree = InitialTree
    /\ now = 0
    /\ nextFire = Interval(env)
    /\ issued = 0
    /\ pending = <<>>
    /\ last = NoCallback

\* a timer that a failed callback has stopped
pollOptimodStoppedByFailure ==
    /\ last.error = "null"
    /\ now = nextFire
    /\ issued < MaxCycles
    /\ issued' = issued + 1
    /\ pending' = [id \in (DOMAIN pending) \cup {issued + 1} |->
                      IF id = issued + 1 THEN oidList ELSE pending[id]]
    /\ nextFire' = now + Interval(env)
    /\ UNCHANGED <<env, tree, now, last>>

\* The interval timer fires and runs pollOptimod: one session.get is issued.
\* Ticks beyond MaxCycles are not explored.
pollOptimod ==
    /\ now = nextFire
    /\ issued < MaxCycles
    /\ issued' = issued + 1
    /\ pending' = [id \in (DOMAIN pending) \cup {issued + 1} |->
                      IF id = issued + 1 THEN oidList ELSE pending[id]]
    /\ nextFire' = now + Interval(env)
    /\ UNCHANGED <<env, tree, now, last>>

\* a callback that yields after the Connected / Last Poll writes and leaves
\* the quantity writes to a later step
GetCallbackYielding(id, error, varbinds) ==
    /\ id \in DOMAIN pending
    /\ tree' = IF error # "null" THEN onGetError(tree)
               ELSE update(update(tree, "connectedParameterNode", TRUE),
                           "lastPollParameterNode", toISOString(now))
    /\ pending' = IF error # "null"
                  THEN [i \in (DOMAIN pending) \ {id} |-> pending[i]]
                  ELSE pending
    /\ last' = [id |-> id, error |-> error, varbinds |-> varbinds, at |-> now]
    /\ UNCHANGED <<env, now, nextFire, issued>>

\* a callback that issues the request again when it failed
GetCallbackRetrying(id, error, varbinds) ==
    /\ id \in DOMAIN pending
    /\ tree' = getCallback(tree, error, varbinds, now)
    /\ issued' = IF error # "null" THEN issued + 1 ELSE issued
    /\ pending' = [i \in ((DOMAIN pending) \ {id})
                          \cup (IF error # "null" THEN {issued + 1} ELSE {}) |->
                      IF i = issued + 1 THEN oidList ELSE pending[i]]
    /\ last' = [id |-> id, error |-> error, varbinds |-> varbinds, at |-> now]
    /\ UNCHANGED <<env, now, nextFire>>

\* The callback of request id runs with (error, varbinds).
GetCallback(id, error, varbinds) ==
    /\ id \in DOMAIN pending
    /\ tree' = getCallback(tree, error, varbinds, now)
    /\ pending' = [i \in (DOMAIN pending) \ {id} |-> pending[i]]
    /\ last' = [id |-> id, error |-> error, varbinds |-> varbinds, at |-> now]
    /\ UNCHANGED <<env, now, nextFire, issued>>

\* Time passes, never beyond the instant at which the timer is due; it is
\* observed half way through the interval and at its end.
Advance(t) ==
    /\ issued < MaxCycles
    /\ t > now
    /\ t <= nextFire
    /\ now' = t
    /\ UNCHANGED <<env, tree, nextFire, issued, pending, last>>

Next ==
    \/ pollOptimod
    \/ \E id \in 1..MaxCycles :
          \/ \E error \in Errors : GetCallback(id, error, <<>>)
          \/ \E varbinds \in Responses : GetCallback(id, "null", varbinds)
    \/ \E t \in {nextFire - Interval(env) \div 2, nextFire} : Advance(t)

\* the process as deployed
Init == Startup({DeployedEnv})
Spec == Init /\ [][Next]_vars

\* the process as deployed, with what its scheduling guarantees: time
\* reaches the instant the timer is due at, a due timer fires, and a request
\* that no response retires gets its callback with the session's timeout
FairSpec ==
    /\ Spec
    /\ WF_vars(Advance(nextFire))
    /\ WF_vars(pollOptimod)
    /\ \A id \in 1..MaxCycles :
          WF_vars(GetCallback(id, "RequestTimedOutError", <<>>))

\* the process started with any of the POLL_INTERVAL_MS settings
InitAnyEnv == Startup(EnvValues)
SpecAnyEnv == InitAnyEnv /\ [][Next]_vars

-----------------------------------------------------------------------------
(* Vocabulary of the properties *)

\* the leaf that belongs to each quantity
LeafOf ==
    [softwareVersion |-> "softwareVersionParameterNode",
     stationName |-> "stationNameParameterNode",
     inputAnalog |-> "inputAnalogParameterNode",
     inputDigital |-> "inputDigitalParameterNode",
     analogInputSilent |-> "analogInputSilentParameterNode",
     aesInputSilent |-> "aesInputSilentParameterNode",
     aesInputError |-> "aesInputErrorParameterNode",
     powerSupply1Status |-> "powerSupply1StatusParameterNode",
     powerSupply2Status |-> "powerSupply2StatusParameterNode"]

Quantity(t, i) == t[LeafOf[Keys[i]]].value
Connected(t) == t["connectedParameterNode"].value
LastPoll(t) == t["lastPollParameterNode"].value

StringPositions == {i \in Positions : Keys[i] \in {"softwareVersion", "stationName"}}
BooleanPositions == Positions \ StringPositions

\* this step ran the callback of a request, with the arguments now in last'
Called == last' # last
Failed == Called /\ last'.error # "null"
Succeeded == Called /\ last'.error = "null"

\* the most recent callback, as the state records it
HasFailed == last.id # 0 /\ last.error # "null"
HasSucceeded == last.id # 0 /\ last.error = "null"
ErroredItems == {i \in DOMAIN last.varbinds : isVarbindError(last.varbinds[i])}

RECURSIVE LexLeq(_, _)
\* a <= b as strings compare, code unit by code unit
LexLeq(a, b) ==
    \/ a = <<>>
    \/ /\ b # <<>>
       /\ \/ a[1] < b[1]
          \/ a[1] = b[1] /\ LexLeq(Tail(a), Tail(b))

RECURSIVE WellFormedUtf8(_)
\* the bytes are the UTF-8 encoding of a text (of code points below U+0800)
WellFormedUtf8(b) ==
    \/ b = <<>>
    \/ b[1] < 128 /\ WellFormedUtf8(Tail(b))
    \/ /\ Len(b) >= 2
       /\ b[1] \in 194..223
       /\ b[2] \in 128..191
       /\ WellFormedUtf8(SubSeq(b, 3, Len(b)))

RECURSIVE Utf8Encode(_)
\* the UTF-8 encoding of a text
Utf8Encode(s) ==
    IF s = <<>> THEN <<>>
    ELSE (IF s[1] < 128 THEN <<s[1]>>
          ELSE IF s[1] < 2048
          THEN <<192 + (s[1] \div 64), 128 + (s[1] % 64)>>
          ELSE <<224 + (s[1] \div 4096), 128 + ((s[1] \div 64) % 64),
                 128 + (s[1] % 64)>>)
         \o Utf8Encode(Tail(s))

\* a POLL_INTERVAL_MS setting that is not a positive number of milliseconds
InvalidPollInterval(e) ==
    /\ e.kind = "string"
    /\ ~(parseInt(e).kind = "number" /\ parseInt(e).n > 0)

\* the group nodes of the tree handed to server.init, by path: the number
\* of a node under its parent is its position among its siblings
GroupNodes ==
    (<<1>> :> "Optimod")
    @@ (<<1, 1>> :> "Device Info")
    @@ (<<1, 1, 1>> :> "Software Version")
    @@ (<<1, 1, 2>> :> "Station Name")
    @@ (<<1, 2>> :> "Monitoring")
    @@ (<<1, 2, 1>> :> "Input Analog")
    @@ (<<1, 2, 2>> :> "Input Digital")
    @@ (<<1, 2, 3>> :> "Analog Input Silent")
    @@ (<<1, 2, 4>> :> "AES Input Silent")
    @@ (<<1, 2, 5>> :> "AES Input Error")
    @@ (<<1, 2, 6>> :> "Power Supply 1")
    @@ (<<1, 2, 7>> :> "Power Supply 2")
    @@ (<<1, 3>> :> "Status")
    @@ (<<1, 3, 1>> :> "Connected")
    @@ (<<1, 3, 2>> :> "Last Poll")

\* the path of each parameter leaf: number 1 under the node of its quantity
ParamPath ==
    [softwareVersionParameterNode |-> <<1, 1, 1, 1>>,
     stationNameParameterNode |-> <<1, 1, 2, 1>>,
     inputAnalogParameterNode |-> <<1, 2, 1, 1>>,
     inputDigitalParameterNode |-> <<1, 2, 2, 1>>,
     analogInputSilentParameterNode |-> <<1, 2, 3, 1>>,
     aesInputSilentParameterNode |-> <<1, 2, 4, 1>>,
     aesInputErrorParameterNode |-> <<1, 2, 5, 1>>,
     powerSupply1StatusParameterNode |-> <<1, 2, 6, 1>>,
     powerSupply2StatusParameterNode |-> <<1, 2, 7, 1>>,
     connectedParameterNode |-> <<1, 3, 1, 1>>,
     lastPollParameterNode |-> <<1, 3, 2, 1>>]

\* the tree the server publishes when its parameter leaves are tr
PublishedTree(tr) ==
    [p \in (DOMAIN GroupNodes) \cup {ParamPath[n] : n \in DOMAIN tr} |->
        IF p \in DOMAIN GroupNodes
        THEN [kind |-> "Node", identifier |-> GroupNodes[p],
              parameterType |-> "none", value |-> Null]
        ELSE LET n == CHOOSE m \in DOMAIN tr : ParamPath[m] = p
             IN [kind |-> "Parameter", identifier |-> tr[n].identifier,
                 parameterType |-> tr[n].parameterType,
                 value |-> tr[n].value]]

\* a published tree without the values of its leaves
Shape(published) ==
    [p \in DOMAIN published |->
        [kind |-> published[p].kind,
         identifier |-> published[p].identifier,
         parameterType |-> published[p].parameterType]]

\* what the callback writes for an item at a position of the registry
Decoded(i, value) ==
    IF i \in StringPositions THEN JsToString(value) ELSE parseInt(value) = Num(1)

-----------------------------------------------------------------------------
(* Properties *)

\* C1: a callback that reports a batch error changes none of the nine
\* quantity leaves and leaves Connected false, whatever the state before.
C1_FailedCycleKeepsLeaves ==
    [][Failed =>
         /\ \A i \in Positions : Quantity(tree', i) = Quantity(tree, i)
         /\ Connected(tree') = FALSE]_vars

\* a failed callback has run on a tree that earlier cycles had filled in
C1_Witness ==
    /\ HasFailed
    /\ Connected(tree) = FALSE
    /\ \E i \in BooleanPositions : Quantity(tree, i) = TRUE
    /\ \E i \in StringPositions : Quantity(tree, i) # <<>>

\* C2: at most one polling cycle is in flight: no request is issued while an
\* earlier request's callback has not run.
C2_CyclesNeverOverlap == Cardinality(DOMAIN pending) <= 1

\* C3: a callback that reports success sets Connected to true and Last Poll
\* to the ISO text of the instant it runs at, which is not before the
\* previous Last Poll text.
C3_SuccessStampsLastPoll ==
    [][Succeeded =>
         /\ Connected(tree') = TRUE
         /\ LastPoll(tree') = toISOString(now)
         /\ LexLeq(LastPoll(tree), LastPoll(tree'))]_vars

\* the second cycle has succeeded, later than a first callback could run
C3_Witness ==
    /\ HasSucceeded
    /\ last.id = 2
    /\ Connected(tree) = TRUE
    /\ LastPoll(tree) = toISOString(last.at)
    /\ last.at > Interval(env)

\* C4: in a successful callback exactly the leaves of the errored items keep
\* their value, every other quantity leaf takes its decoded new value, and
\* the cycle still counts as a success.
C4_ItemFailureIsolation ==
    [][Succeeded =>
         /\ \A i \in Positions :
               Quantity(tree', i) =
                  IF isVarbindError(last'.varbinds[i]) THEN Quantity(tree, i)
                  ELSE IF i \in StringPositions
                  THEN JsToString(last'.varbinds[i].value)
                  ELSE last'.varbinds[i].value.n = 1
         /\ Connected(tree') = TRUE]_vars

\* a successful callback with some but not all items errored has run; an
\* errored item's leaf still shows what an earlier cycle wrote, and an item
\* after it was written
C4_Witness ==
    /\ HasSucceeded
    /\ ErroredItems # {}
    /\ \E i \in ErroredItems :
          /\ Quantity(tree, i) # Quantity(InitialTree, i)
          /\ \E j \in Positions \ ErroredItems :
                /\ j > i
                /\ Quantity(tree, j) # Quantity(InitialTree, j)

\* C5: a failed callback leaves Last Poll exactly as it was.
C5_FailedCycleKeepsLastPoll ==
    [][Failed => LastPoll(tree') = LastPoll(tree)]_vars

\* a failed callback has run after a successful one: Last Poll is still set
C5_Witness ==
    /\ HasFailed
    /\ last.id = 2
    /\ LastPoll(tree) # <<>>

\* C6: after a successful callback, whatever items were errored, Connected
\* (true) and Last Poll are what a response with no errored item and a
\* response with every item errored would have left.
C6_ItemErrorsKeepAvailability ==
    [][Succeeded =>
         \A errs \in {{}, Positions} :
            LET other == getCallback(tree, "null",
                                     [i \in Positions |-> Varbind(i, 0, errs)],
                                     now)
            IN /\ Connected(tree') = Connected(other)
               /\ LastPoll(tree') = LastPoll(other)
               /\ Connected(other) = TRUE]_vars

\* a successful callback in which every item was errored has run
C6_Witness ==
    /\ HasSucceeded
    /\ ErroredItems = Positions
    /\ Connected(tree) = TRUE
    /\ LastPoll(tree) = toISOString(last.at)

\* C7: with a POLL_INTERVAL_MS that is not a positive number the process
\* fails at startup: no request is ever issued.
C7_InvalidIntervalIsFatal == InvalidPollInterval(env) => issued = 0

\* C8: from startup until the first successful callback, Connected is false
\* and Last Poll is empty, however many callbacks fail.
C8_InitialAvailability ==
    /\ Connected(tree) = FALSE /\ LastPoll(tree) = <<>>
    /\ [][(Connected(tree) = FALSE /\ LastPoll(tree) = <<>> /\ ~Succeeded)
            => (Connected(tree') = FALSE /\ LastPoll(tree') = <<>>)]_vars

\* two cycles have failed and none has succeeded
C8_Witness ==
    /\ HasFailed
    /\ issued = 2
    /\ pending = <<>>
    /\ Connected(tree) = FALSE
    /\ LastPoll(tree) = <<>>

\* C9: a Boolean quantity returned as an integer v without an error marker
\* is written true exactly when v = 1.
C9_BooleanDecode ==
    [][Succeeded =>
         \A i \in BooleanPositions :
            LET vb == last'.varbinds[i]
            IN (~isVarbindError(vb) /\ vb.type = "Integer")
                  => (Quantity(tree', i) = TRUE <=> vb.value.n = 1)]_vars

\* a successful callback has written true for a 1 over an earlier false or
\* first value, and false for each of 0, 2, -1 and 11
C9_Witness ==
    /\ HasSucceeded
    /\ ErroredItems = {}
    /\ \A v \in {0, 1, 2, -1, 11} :
          \E i \in BooleanPositions :
             /\ last.varbinds[i].value.n = v
             /\ Quantity(tree, i) = (v = 1)

\* C10: a String quantity returned as a text without an error marker, the
\* empty text included, is written with exactly that text.
C10_StringDecode ==
    [][Succeeded =>
         \A i \in StringPositions :
            LET vb == last'.varbinds[i]
            IN (~isVarbindError(vb) /\ vb.type = "OctetString"
                /\ WellFormedUtf8(vb.value.chars))
                  => Utf8Encode(Quantity(tree', i)) = vb.value.chars]_vars

\* a successful callback has written the empty text to one String leaf and
\* a two-byte character, as one character, to the other
C10_Witness ==
    /\ HasSucceeded
    /\ ErroredItems = {}
    /\ \E i, j \in StringPositions :
          /\ last.varbinds[i].value.chars = <<>>
          /\ Quantity(tree, i) = <<>>
          /\ last.varbinds[j].value.chars = <<195, 169>>
          /\ Quantity(tree, j) = <<233>>

\* C11: callbacks write in the order their requests were issued: no callback
\* of an earlier request writes a leaf after a callback of a later request
\* has written it (every callback writes the Connected leaf).
C11_NoOutOfOrderWrites ==
    [][Called => last'.id > last.id]_vars

\* C12: the writes of one callback are one step: the step that runs a
\* callback retires its request and applies the whole update phase, from the
\* Connected write to the last quantity write, and no other step writes.
C12_UpdatePhaseIsOneStep ==
    [][/\ Called =>
             /\ last'.id \in DOMAIN pending
             /\ last'.id \notin DOMAIN pending'
             /\ tree' = getCallback(tree, last'.error, last'.varbinds, now)
       /\ tree' # tree => Called]_vars

\* two requests were in flight together and both update phases have run,
\* the one of the earlier request last
C12_Witness ==
    /\ HasSucceeded
    /\ last.id = 1
    /\ last.at >= 2 * Interval(env)
    /\ issued = 2
    /\ pending = <<>>
    /\ ErroredItems = {}

\* C13: a tick issues the request with the nine identifiers in the order of
\* the registry, and a successful callback writes the item at position i,
\* decoded with the kind of the i-th quantity, to that quantity's leaf and to
\* no other: a leaf whose item is errored keeps its value, and Connected and
\* Last Poll get TRUE and the timestamp, never an item.
C13_PositionToLeaf ==
    [][/\ issued' # issued =>
             /\ Len(pending'[issued']) = Len(Keys)
             /\ \A i \in Positions : pending'[issued'][i] = oids[Keys[i]]
       /\ Succeeded =>
             /\ \A i \in Positions :
                   Quantity(tree', i) =
                      IF isVarbindError(last'.varbinds[i])
                      THEN Quantity(tree, i)
                      ELSE Decoded(i, last'.varbinds[i].value)
             /\ Connected(tree') = TRUE
             /\ LastPoll(tree') = toISOString(now)
             /\ {LeafOf[Keys[i]] : i \in Positions}
                   \cup {"connectedParameterNode", "lastPollParameterNode"}
                = DOMAIN tree']_vars

\* a successful callback has written different values to neighbouring
\* Boolean leaves and different texts to the two String leaves
C13_Witness ==
    /\ HasSucceeded
    /\ ErroredItems = {}
    /\ Quantity(tree, 1) # Quantity(tree, 2)
    /\ \E i \in BooleanPositions :
          /\ i + 1 \in BooleanPositions
          /\ Quantity(tree, i) = TRUE
          /\ Quantity(tree, i + 1) = FALSE
          /\ last.varbinds[i].value = Num(1)

\* C14: the published tree has the nodes, paths, labels, kinds and parameter
\* types of the tree published at startup: only values differ.
C14_TreeShapeFrozen ==
    /\ DOMAIN tree = DOMAIN InitialTree
    /\ Shape(PublishedTree(tree)) = Shape(PublishedTree(InitialTree))

\* successful and failed callbacks have run and values of both kinds differ
\* from the published ones
C14_Witness ==
    /\ HasFailed
    /\ last.id = 2
    /\ LastPoll(tree) # <<>>
    /\ \E i \in StringPositions : Quantity(tree, i) # Quantity(InitialTree, i)
    /\ \E i \in BooleanPositions : Quantity(tree, i) # Quantity(InitialTree, i)

\* C15: the number of requests issued is the number of ticks the timer has
\* fired, which its next due time tells: callbacks issue none.
C15_RequestsEqualTicks ==
    issued = nextFire \div Interval(env) - 1

\* the first request has failed and the second tick has issued the second
\* request, which is still in flight
C15_Witness ==
    /\ HasFailed
    /\ last.id = 1
    /\ issued = 2
    /\ DOMAIN pending = {2}
    /\ nextFire = 3 * Interval(env)

\* C16: with a timer that fires when due and requests that all get their
\* callback, ticks keep firing after a failed callback and after a callback
\* with errored items, every request is retired, and a Disconnected state
\* that a successful callback follows becomes Connected.
C16_NoTerminalStateAndRecovery ==
    /\ [](HasFailed => <>(issued = MaxCycles /\ pending = <<>>))
    /\ [](ErroredItems # {} => <>(issued = MaxCycles /\ pending = <<>>))
    /\ []((Connected(tree) = FALSE /\ <>HasSucceeded)
             => <>(Connected(tree) = TRUE))

\* every tick has fired and every request is retired; the last one was
\* answered with errored items and has left the state Connected
C16_Witness ==
    /\ HasSucceeded
    /\ last.id = MaxCycles
    /\ issued = MaxCycles
    /\ pending = <<>>
    /\ ErroredItems = {1, 2}
    /\ Connected(tree) = TRUE

\* C17: whenever Connected is true, Last Poll holds a timestamp.
C17_ConnectedImpliesStamped ==
    Connected(tree) = TRUE => LastPoll(tree) # <<>>

\* Connected is true with a timestamp while a request is in flight
C17_Witness ==
    /\ Connected(tree) = TRUE
    /\ Len(LastPoll(tree)) = 24
    /\ pending # <<>>

====
